---- MODULE Spec2Model ----
(***************************************************************************)
(* Model of the publish / submodule-synchronisation workflow of the blog   *)
(* repository (fabfile.py, tasks.py).  The parent repository, the output   *)
(* repository nested at output/, its remote and the file system below the  *)
(* blog directory are the state; every fabric task is an operation.        *)
(*                                                                         *)
(* A path is the sequence of its "/"-separated components, so 'output/' is *)
(* <<"output", "">>.  A tree (HEAD tree, index, working tree) maps every   *)
(* file of FILES to its content, "none" when the file is absent.           *)
(***************************************************************************)
EXTENDS Integers, Sequences, FiniteSets, TLC

VARIABLES
    submodules,   \* submodules registered in the parent repository
    dirs,         \* directories below blog_path: "missing", "dir" or "repo"
    wt,           \* working tree of output/
    index,        \* index of the output repository
    head,         \* tree of the output repository's head commit
    ptrTree,      \* tree of the commit the parent records for output/
    ptrStale,     \* output head differs from the commit the parent records
    unpushed,     \* output repository has commits its remote lacks
    unpulled,     \* the remote has commits the output repository lacks
    diffIgnoresUntracked, \* installed git: untracked files do not dirty a submodule
    site,         \* what the generator renders from the current content
    task,         \* fabric task being run, "none" when idle
    arg,          \* generated_path argument of clean
    pc,           \* next step of the running task
    outcome,      \* "running", "ok" or "failed"
    log,          \* steps the run has executed, with their result
    cur,          \* what the run has done so far
    pre,          \* repository state when the run started
    pre5,         \* output repository state when push_changes started
    prev,         \* the run completed just before, if nothing happened since
    events        \* number of things that happened around the tool

vars == <<submodules, dirs, wt, index, head, ptrTree, ptrStale, unpushed,
          unpulled, diffIgnoresUntracked, site, task, arg, pc, outcome, log,
          cur, pre, pre5, prev, events>>

repoVars == <<submodules, dirs, wt, index, head, ptrTree, ptrStale, unpushed,
              unpulled>>

-----------------------------------------------------------------------------
(* Configuration: pelicanconf.py, publishconf.py *)

blog_path == <<"blog">>

OUTPUT_PATH == <<"output", "">>

SUBMODULE_NAME == "output"

DirNames == {"output", "public"}

CleanArgs == {<<"output", "">>, <<"output">>, <<"public", "">>}

FILES == {<<"index.html">>, <<"new.html">>, <<"blog", "post.html">>}

Contents == {"none", "a", "b"}

\* the contents a file takes: only index.html has a second version
ContentsOf(f) == IF f = <<"index.html">> THEN Contents ELSE {"none", "a"}

\* how many times the world around the tool acts in one behaviour
MaxEvents == 2

EmptyTree == [f \in FILES |-> "none"]

InitialTree == [f \in FILES |-> IF f = <<"index.html">> THEN "a" ELSE "none"]

\* what the generator can render: index.html always, in either version, and
\* possibly one new page
SITES ==
    { [f \in FILES |-> IF f = <<"index.html">> THEN "a" ELSE IF f \in S THEN "a" ELSE "none"] :
        S \in {{}, {<<"new.html">>}, {<<"blog", "post.html">>}} }
    \cup { [f \in FILES |-> IF f = <<"index.html">> THEN "b" ELSE "none"] }

-----------------------------------------------------------------------------
(* Paths *)

join(a, b) == a \o b

IsNameComponent(c) == c # "" /\ c # "."

normpath(p) == SelectSeq(p, IsNameComponent)

full_path(x) == join(blog_path, x)

\* the directory below blog_path that a relative path names
DirOf(p) == normpath(p)[1]

IsSubmodulePath(output_path) ==
    \E x \in submodules : normpath(x.abspath) = normpath(output_path)

-----------------------------------------------------------------------------
(* Git and GitPython operations on the output repository *)

\* Repo(path): NoSuchPathError, InvalidGitRepositoryError or a repository
RepoAt(d) ==
    CASE dirs[d] = "missing" -> "NoSuchPathError"
      [] dirs[d] = "dir"     -> "InvalidGitRepositoryError"
      [] OTHER               -> "repo"

untracked_files(idx, w) == {f \in FILES : idx[f] = "none" /\ w[f] # "none"}

\* index.diff(None) entries with change_type 'M'
modified_files(idx, w) == {f \in FILES : idx[f] # "none" /\ w[f] # "none" /\ w[f] # idx[f]}

\* index.diff(None) entries with change_type 'D'
deleted_files(idx, w) == {f \in FILES : idx[f] # "none" /\ w[f] = "none"}

\* Repo.is_dirty(index=True, working_tree=True, untracked_files=False)
is_dirty(h, idx, w) ==
    \/ idx # h
    \/ modified_files(idx, w) # {}
    \/ deleted_files(idx, w) # {}

\* head.reset(working_tree=True, hard=True)
ResetHardWt(h, idx, w) ==
    [f \in FILES |-> IF h[f] # "none" THEN h[f]
                     ELSE IF idx[f] # "none" THEN "none"
                     ELSE w[f]]

\* an untracked directory holds no file of the index
InUntrackedDir(f, idx) ==
    /\ Len(f) > 1
    /\ \A g \in FILES : (Len(g) > 1 /\ g[1] = f[1]) => idx[g] = "none"

\* git clean -f : no -d, untracked directories are not entered
GitCleanF(idx, w) ==
    [f \in FILES |-> IF f \in untracked_files(idx, w) /\ ~InUntrackedDir(f, idx)
                     THEN "none" ELSE w[f]]

\* staging that takes the deletions too (git add -A)
StageChanges_WithDeletions(idx, w) ==
    [f \in FILES |-> IF f \in untracked_files(idx, w) \cup modified_files(idx, w)
                               \cup deleted_files(idx, w)
                     THEN w[f] ELSE idx[f]]

\* index.add(untracked_files) ; index.add(a_path of the 'M' entries)
StageChanges(idx, w) ==
    [f \in FILES |-> IF f \in untracked_files(idx, w) \cup modified_files(idx, w)
                     THEN w[f] ELSE idx[f]]

\* the parent's index.diff(None) lists output/: the submodule's head moved or
\* its working tree is dirty
ParentDiffShowsOutput(stale, h, idx, w) ==
    \/ stale
    \/ is_dirty(h, idx, w)
    \/ (~diffIgnoresUntracked /\ untracked_files(idx, w) # {})

\* pelican -s publishconf.py : writes the rendered files, deletes nothing
Render(w) == [f \in FILES |-> IF site[f] # "none" THEN site[f] ELSE w[f]]

-----------------------------------------------------------------------------
(* Bookkeeping of a run *)

NoRun == [task |-> "none", outcome |-> "none", parentCommits |-> 0]

NoCur == [parentCommits |-> 0, outCommits |-> 0, pushes |-> 0,
          noChanges |-> FALSE, branch |-> "none", cause |-> "none"]

NoPre == [dirs |-> [d \in DirNames |-> "missing"], empty |-> TRUE]

\* the directories as a task finds them
Snapshot == [dirs |-> dirs, empty |-> wt = EmptyTree]

NoPre5 == [untracked |-> {}, modified |-> {}, deleted |-> {}, inHead |-> {},
           staged |-> FALSE]

\* the output repository as push_changes finds it
Snapshot5 ==
    IF dirs["output"] # "repo" THEN NoPre5
    ELSE [untracked |-> untracked_files(index, wt),
          modified |-> modified_files(index, wt),
          deleted |-> deleted_files(index, wt),
          inHead |-> {f \in FILES : head[f] # "none"},
          staged |-> index # head]

Entry(step, status) == [step |-> step, status |-> status]

StepsOf(l) == [i \in 1..Len(l) |-> l[i].step]

AllOk(l) == \A i \in 1..Len(l) : l[i].status = "ok"

\* failures of the world (network, disk, generator), not of the tool's logic
EnvCauses == {"git", "io", "pelican"}

\* publish() building before the first pull
PublishOrder_BuildFirst == <<"clean", "create_submodule", "preview", "update_submodule",
                             "push_changes", "update_submodule_2">>

\* publish(): the order of the calls
PublishOrder == <<"clean", "create_submodule", "update_submodule", "preview",
                  "push_changes", "update_submodule_2">>

IndexIn(s, x) == CHOOSE i \in 1..Len(s) : s[i] = x

\* the step that follows step s of task t
After(t, s) ==
    IF t = "publish" /\ s \in {PublishOrder[i] : i \in 1..(Len(PublishOrder) - 1)}
    THEN PublishOrder[IndexIn(PublishOrder, s) + 1]
    ELSE "done"

FirstStep(t) == IF t = "publish" THEN PublishOrder[1] ELSE t

Tasks == {"clean", "create_submodule", "update_submodule", "preview",
          "push_changes", "publish", "tasks_clean"}

\* a step returned normally and the task goes on at step next
Proceed(step, status, c, next) ==
    /\ log' = Append(log, Entry(step, status))
    /\ cur' = c
    /\ pc' = next
    /\ outcome' = IF next = "done" THEN "ok" ELSE "running"

\* a step raised: the exception leaves the task
Abort(step, cause) ==
    /\ log' = Append(log, Entry(step, "failed"))
    /\ cur' = [cur EXCEPT !.cause = cause]
    /\ pc' = "done"
    /\ outcome' = "failed"

-----------------------------------------------------------------------------
Init ==
    /\ submodules \in {{}, {[name |-> SUBMODULE_NAME, abspath |-> join(blog_path, <<"output">>)]}}
    /\ dirs \in {[d \in DirNames |-> IF d = "public" THEN "dir" ELSE k] :
                   k \in (IF submodules = {} THEN {"missing", "dir"}
                          ELSE {"missing", "dir", "repo"})}
    /\ wt = IF dirs["output"] = "repo" THEN InitialTree ELSE EmptyTree
    /\ index = InitialTree
    /\ head = InitialTree
    /\ ptrTree = InitialTree
    /\ ptrStale = FALSE
    /\ unpushed = FALSE
    /\ unpulled = FALSE
    /\ diffIgnoresUntracked \in BOOLEAN
    /\ site = InitialTree
    /\ task = "none"
    /\ arg = OUTPUT_PATH
    /\ pc = "idle"
    /\ outcome = "none"
    /\ log = <<>>
    /\ cur = NoCur
    /\ pre = NoPre
    /\ pre5 = NoPre5
    /\ prev = NoRun
    /\ events = 0

-----------------------------------------------------------------------------
(* Starting and ending a task *)

Start ==
    /\ pc = "idle"
    /\ \E t \in Tasks, a \in CleanArgs :
         /\ task' = t
         /\ arg' = IF t = "clean" THEN a ELSE OUTPUT_PATH
         /\ pc' = FirstStep(t)
    /\ outcome' = "running"
    /\ log' = <<>>
    /\ cur' = NoCur
    /\ pre' = Snapshot
    /\ pre5' = NoPre5
    /\ UNCHANGED <<repoVars, diffIgnoresUntracked, site, prev, events>>

Return ==
    /\ pc = "done"
    /\ pc' = "idle"
    /\ prev' = [task |-> task,
                outcome |-> IF outcome = "ok" /\ ~AllOk(log) THEN "rejected" ELSE outcome,
                parentCommits |-> cur.parentCommits]
    /\ task' = "none"
    /\ arg' = OUTPUT_PATH
    /\ outcome' = "none"
    /\ log' = <<>>
    /\ cur' = NoCur
    /\ pre' = NoPre
    /\ pre5' = NoPre5
    /\ UNCHANGED <<repoVars, diffIgnoresUntracked, site, events>>

-----------------------------------------------------------------------------
(* fabfile.clean *)

\* git submodule update --init : check out the recorded commit at output/
SubmoduleInit ==
    /\ dirs' = [dirs EXCEPT !["output"] = "repo"]
    /\ wt' = ptrTree
    /\ index' = ptrTree
    /\ head' = ptrTree
    /\ ptrStale' = FALSE
    /\ unpushed' = FALSE
    /\ unpulled' = (unpulled \/ (ptrStale /\ ~unpushed))
    /\ UNCHANGED <<submodules, ptrTree>>

\* rm -rf <path>
RmRf(p) ==
    /\ dirs' = [dirs EXCEPT ![DirOf(p)] = "missing"]
    /\ wt' = IF DirOf(p) = "output" THEN EmptyTree ELSE wt
    /\ UNCHANGED <<submodules, index, head, ptrTree, ptrStale, unpushed, unpulled>>

\* the path the else branch of clean deletes
CleanRmTarget(generated_path) == OUTPUT_PATH

clean ==
    /\ pc = "clean"
    /\ LET generated_path == arg
           output_path == full_path(generated_path)
       IN IF IsSubmodulePath(output_path)
          THEN CASE RepoAt(DirOf(generated_path)) = "repo" ->
                      \/ /\ index' = head
                         /\ wt' = GitCleanF(head, ResetHardWt(head, index, wt))
                         /\ UNCHANGED <<submodules, dirs, head, ptrTree, ptrStale, unpushed, unpulled>>
                         /\ Proceed("clean", "ok", [cur EXCEPT !.branch = "reset"], After(task, pc))
                      \/ /\ UNCHANGED repoVars
                         /\ Abort("clean", "git")
                 [] RepoAt(DirOf(generated_path)) = "NoSuchPathError" ->
                      \/ /\ SubmoduleInit
                         /\ Proceed("clean", "ok", [cur EXCEPT !.branch = "init"], After(task, pc))
                      \/ /\ dirs' = [dirs EXCEPT ![DirOf(generated_path)] = "dir"]
                         /\ UNCHANGED <<submodules, wt, index, head, ptrTree, ptrStale, unpushed, unpulled>>
                         /\ Abort("clean", "git")
                 [] OTHER ->
                      /\ UNCHANGED repoVars
                      /\ Abort("clean", "InvalidGitRepositoryError")
          ELSE \/ /\ RmRf(CleanRmTarget(generated_path))
                  /\ Proceed("clean", "ok", [cur EXCEPT !.branch = "rm"], After(task, pc))
               \/ /\ UNCHANGED repoVars
                  /\ Abort("clean", "io")
    /\ UNCHANGED <<diffIgnoresUntracked, site, task, arg, pre, pre5, prev, events>>

-----------------------------------------------------------------------------
(* tasks.clean *)

tasks_clean ==
    /\ pc = "tasks_clean"
    /\ IF dirs["output"] # "missing"
       THEN /\ dirs' = [dirs EXCEPT !["output"] = "dir"]
            /\ wt' = EmptyTree
       ELSE UNCHANGED <<dirs, wt>>
    /\ UNCHANGED <<submodules, index, head, ptrTree, ptrStale, unpushed, unpulled>>
    /\ Proceed("tasks_clean", "ok", [cur EXCEPT !.branch = "rmtree"], After(task, pc))
    /\ UNCHANGED <<diffIgnoresUntracked, site, task, arg, pre, pre5, prev, events>>

-----------------------------------------------------------------------------
(* fabfile.preview *)

preview ==
    /\ pc = "preview"
    /\ \/ /\ dirs' = [dirs EXCEPT !["output"] = IF @ = "missing" THEN "dir" ELSE @]
          /\ wt' = Render(wt)
          /\ UNCHANGED <<submodules, index, head, ptrTree, ptrStale, unpushed, unpulled>>
          /\ Proceed("preview", "ok", cur, After(task, pc))
       \/ /\ UNCHANGED repoVars
          /\ Abort("preview", "pelican")
    /\ UNCHANGED <<diffIgnoresUntracked, site, task, arg, pre, pre5, prev, events>>

-----------------------------------------------------------------------------
(* fabfile.create_submodule *)

\* Repo.submodule(name) raises ValueError when no submodule has that name
HasSubmoduleNamed(n) == \E x \in submodules : x.name = n

\* Submodule.module_exists()
module_exists == RepoAt("output") = "repo"

create_submodule ==
    /\ pc = "create_submodule"
    /\ IF ~HasSubmoduleNamed(SUBMODULE_NAME)
       THEN /\ UNCHANGED repoVars
            /\ Abort("create_submodule", "ValueError")
       ELSE IF module_exists
       THEN \/ /\ UNCHANGED repoVars
               /\ Proceed("create_submodule", "ok", [cur EXCEPT !.branch = "present"], After(task, pc))
            \/ /\ UNCHANGED repoVars
               /\ Abort("create_submodule", "git")
       ELSE IF dirs["output"] = "dir" /\ wt # EmptyTree
       THEN /\ UNCHANGED repoVars
            /\ Abort("create_submodule", "OSError")
       ELSE \/ /\ SubmoduleInit
               /\ Proceed("create_submodule", "ok", [cur EXCEPT !.branch = "materialized"], After(task, pc))
            \/ /\ UNCHANGED repoVars
               /\ Abort("create_submodule", "git")
    /\ UNCHANGED <<diffIgnoresUntracked, site, task, arg, pre, pre5, prev, events>>

-----------------------------------------------------------------------------
(* fabfile.update_submodule *)

update_submodule ==
    /\ pc \in {"update_submodule", "update_submodule_2"}
    /\ IF RepoAt(DirOf(OUTPUT_PATH)) # "repo"
       THEN /\ UNCHANGED repoVars
            /\ Abort("update_submodule", RepoAt(DirOf(OUTPUT_PATH)))
       ELSE \/ /\ UNCHANGED repoVars
               /\ Abort("update_submodule", "git")
            \/ LET moved == ptrStale \/ unpulled
                   changed == /\ IsSubmodulePath(full_path(OUTPUT_PATH))
                              /\ ParentDiffShowsOutput(moved, head, index, wt)
               IN /\ unpulled' = FALSE
                  /\ ptrStale' = (moved /\ ~changed)
                  /\ ptrTree' = IF changed THEN head ELSE ptrTree
                  /\ UNCHANGED <<submodules, dirs, wt, index, head, unpushed>>
                  /\ Proceed("update_submodule", "ok",
                             [cur EXCEPT !.parentCommits = @ + (IF changed THEN 1 ELSE 0)],
                             After(task, pc))
    /\ UNCHANGED <<diffIgnoresUntracked, site, task, arg, pre, pre5, prev, events>>

-----------------------------------------------------------------------------
(* fabfile.push_changes *)

push_changes ==
    /\ pc = "push_changes"
    /\ pre5' = Snapshot5
    /\ IF RepoAt(DirOf(OUTPUT_PATH)) # "repo"
       THEN /\ UNCHANGED repoVars
            /\ Abort("push_changes", RepoAt(DirOf(OUTPUT_PATH)))
       ELSE IF is_dirty(head, index, wt)
       THEN LET staged == StageChanges(index, wt)
            IN /\ index' = staged
               /\ IF staged = head
                  THEN /\ UNCHANGED <<head, ptrStale, unpushed>>
                       /\ Abort("commit", "nothing to commit")
                  ELSE \/ /\ head' = staged
                          /\ ptrStale' = TRUE
                          /\ unpushed' = TRUE
                          /\ Proceed("commit", "ok",
                                     [cur EXCEPT !.outCommits = @ + 1], "push")
                       \/ /\ UNCHANGED <<head, ptrStale, unpushed>>
                          /\ Abort("commit", "git")
               /\ UNCHANGED <<submodules, dirs, wt, ptrTree, unpulled>>
       ELSE /\ UNCHANGED repoVars
            /\ Proceed("no_changes", "ok", [cur EXCEPT !.noChanges = TRUE], After(task, pc))
    /\ UNCHANGED <<diffIgnoresUntracked, site, task, arg, pre, prev, events>>

\* remote("origin").push("master") : a rejected push is returned, not raised
push ==
    /\ pc = "push"
    /\ \/ /\ ~unpulled
          /\ unpushed' = FALSE
          /\ Proceed("push", "ok", [cur EXCEPT !.pushes = @ + 1], After(task, "push_changes"))
       \/ /\ unpulled
          /\ UNCHANGED unpushed
          /\ Proceed("push", "rejected", cur, After(task, "push_changes"))
       \/ /\ UNCHANGED unpushed
          /\ Abort("push", "git")
    /\ UNCHANGED <<submodules, dirs, wt, index, head, ptrTree, ptrStale, unpulled>>
    /\ UNCHANGED <<diffIgnoresUntracked, site, task, arg, pre, pre5, prev, events>>

-----------------------------------------------------------------------------
(* The world around the tool *)

\* somebody else pushes to the publish branch
RemoteAdvance ==
    /\ pc # "done"
    /\ events < MaxEvents
    /\ events' = events + 1
    /\ ~unpulled
    /\ unpulled' = TRUE
    /\ prev' = NoRun
    /\ UNCHANGED <<submodules, dirs, wt, index, head, ptrTree, ptrStale, unpushed,
                   diffIgnoresUntracked, site, task, arg, pc, outcome, log, cur, pre, pre5>>

\* a file below output/ is written or deleted by hand
LocalEdit ==
    /\ pc = "idle"
    /\ events < MaxEvents
    /\ events' = events + 1
    /\ dirs["output"] # "missing"
    /\ \E f \in FILES : \E c \in ContentsOf(f) :
         /\ wt[f] # c
         /\ wt' = [wt EXCEPT ![f] = c]
    /\ prev' = NoRun
    /\ UNCHANGED <<submodules, dirs, index, head, ptrTree, ptrStale, unpushed, unpulled,
                   diffIgnoresUntracked, site, task, arg, pc, outcome, log, cur, pre, pre5>>

\* the content of the blog is edited
EditContent ==
    /\ pc = "idle"
    /\ events < MaxEvents
    /\ events' = events + 1
    /\ site' \in SITES \ {site}
    /\ prev' = NoRun
    /\ UNCHANGED <<repoVars, diffIgnoresUntracked, task, arg, pc, outcome, log, cur, pre, pre5>>

-----------------------------------------------------------------------------
Next ==
    \/ Start
    \/ Return
    \/ clean
    \/ tasks_clean
    \/ preview
    \/ create_submodule
    \/ update_submodule
    \/ push_changes
    \/ push
    \/ RemoteAdvance
    \/ LocalEdit
    \/ EditContent

Spec == Init /\ [][Next]_vars

-----------------------------------------------------------------------------
(* Properties *)

IsPrefix(a, b) == Len(a) <= Len(b) /\ \A i \in 1..Len(a) : a[i] = b[i]

PublishWithPush == <<"clean", "create_submodule", "update_submodule", "preview",
                     "commit", "push", "update_submodule">>

PublishNoChanges == <<"clean", "create_submodule", "update_submodule", "preview",
                      "no_changes", "update_submodule">>

C2_FailureAborts ==
    task = "publish" =>
      \A i \in 1..Len(log) :
         log[i].status # "ok" => (i = Len(log) /\ pc = "done" /\ outcome = "failed")

\* C3: push_changes commits when the output repository has untracked or
\* modified files, and makes no commit when it is clean.
C3_CommitsIffChanged ==
    /\ (pre5.untracked \cup pre5.modified # {}) => ~cur.noChanges
    /\ (pre5.untracked \cup pre5.modified = {} /\ pre5.deleted = {} /\ ~pre5.staged)
          => cur.outCommits = 0

\* C4: the second of two update_submodule runs in a row, the remote
\* unchanged in between, creates no commit in the parent, and the two together
\* create at most one.
C4_SyncIdempotent ==
    (/\ pc = "done" /\ task = "update_submodule" /\ outcome = "ok"
     /\ prev.task = "update_submodule" /\ prev.outcome = "ok")
    => (cur.parentCommits = 0 /\ prev.parentCommits + cur.parentCommits <= 1)

\* C5: create_submodule, unless the network or the disk fails, ends without
\* error with the submodule registered and checked out.
C5_EnsureExists ==
    (pc = "done" /\ task = "create_submodule" /\ cur.cause \notin EnvCauses)
    => (/\ outcome = "ok"
        /\ HasSubmoduleNamed(SUBMODULE_NAME)
        /\ dirs["output"] = "repo")

\* C6: after clean has reset the output submodule, every tracked file has the
\* content of the head commit and no untracked file is left.
C6_ResetDiscardsAll ==
    (pc = "done" /\ task = "clean" /\ outcome = "ok" /\ cur.branch = "reset")
    => (/\ \A f \in FILES : head[f] # "none" => wt[f] = head[f]
        /\ untracked_files(index, wt) = {})

\* C7: clean of a registered submodule that is not checked out (directory
\* missing or empty) succeeds and leaves a repository at the output path.
C7_ResetInitializes ==
    (/\ pc = "done" /\ task = "clean" /\ cur.cause \notin EnvCauses
     /\ IsSubmodulePath(full_path(arg))
     /\ pre.dirs[DirOf(arg)] # "repo" /\ pre.empty)
    => (outcome = "ok" /\ dirs[DirOf(arg)] = "repo")

\* C8: clean of a path that is no submodule deletes the directory at that
\* path and leaves every other directory as it was.
C8_DeletesGivenPathOnly ==
    (pc = "done" /\ task = "clean" /\ outcome = "ok" /\ cur.branch = "rm")
    => (/\ dirs[DirOf(arg)] = "missing"
        /\ \A d \in DirNames \ {DirOf(arg)} : dirs[d] = pre.dirs[d])

\* C9: a publish run right after a successful one, nothing changed in
\* between, succeeds, reports no changes and creates no commit and no push.
C9_PublishRerunnable ==
    (/\ pc = "done" /\ task = "publish" /\ cur.cause \notin EnvCauses
     /\ prev.task = "publish" /\ prev.outcome = "ok")
    => (/\ outcome = "ok"
        /\ cur.noChanges
        /\ cur.outCommits = 0 /\ cur.pushes = 0 /\ cur.parentCommits = 0)

\* C10: a file deleted in the working tree, the deletion not staged, when
\* push_changes starts stays in the index and in the head commit.
C10_DeletionNotStaged ==
    \A f \in pre5.deleted :
       /\ index[f] # "none"
       /\ (f \in pre5.inHead \/ cur.outCommits > 0) => head[f] # "none"

C10_Witness ==
    /\ pre5.deleted \cap pre5.inHead # {}
    /\ cur.outCommits = 1
    /\ \E i \in 1..Len(log) : log[i].step = "commit" /\ log[i].status = "ok"

====
